---- MODULE Spec2Model ----
(***************************************************************************)
(* Gravity genesis: the in-memory ledger snapshot (storage.rs), the        *)
(* sequential executor with its revm State (utils.rs, execute.rs), and the *)
(* deployment routine with its address remapping (contracts.rs).           *)
(*                                                                         *)
(* Rust Option values are records [some |-> ...]; Rust Result values are    *)
(* records [ok |-> ...]; HashMaps are functions with a finite DOMAIN.      *)
(* Balances are counted in units of 10^18 wei.                             *)
(***************************************************************************)
EXTENDS Integers, Sequences, FiniteSets, TLC

VARIABLES
    routine,   \* the routine that runs: "deploy_and_constrcut_all", "genesis_generate", "none"
    db,        \* the InMemoryDB handed to the executor / queried by the VM
    bundle_state, \* the Bundle the executor is given as its base, or None
    query,     \* the value returned by the last DatabaseRef or classifier call
    txs,       \* Vec<TxEnv> built by the deployment routine
    addr_map,  \* HashMap<Address, Address>: derived address -> canonical address
    addresses, \* the addresses the deploy_*_contract calls returned, in call order
    built,     \* how many deploy_*_contract steps the routine has done
    pc,        \* where the routine is
    state,     \* the revm State<WrapDatabaseRef<InMemoryDB>> owned by the Evm
    i,         \* the executor's loop index: transactions done so far
    results,   \* Vec<ExecutionResult> of the executor
    ret,       \* what the executor returned to its caller
    panic,     \* the panic that ended the routine, if any
    out,       \* the BundleState.state the routine returns
    diffs,     \* history: the state diff evm.transact() returned for each transaction
    run,       \* 1 for the first run of the routine, 2 for its repetition
    first      \* what the first run ended with

vars == <<routine, db, bundle_state, query, txs, addr_map, addresses, built, pc, state, i, results, ret, panic, out,
          diffs, run, first>>

----------------------------------------------------------------------------
(* Bounds of the model *)

\* longest transaction list handed to the executor
MaxTxs == 3

\* most hex files of the byte code directory that are not a plain deployment
MaxFaults == 1

\* storage keys are 1..MaxKey and stored values 1..MaxVal where a snapshot or a
\* bundle is drawn from a set
MaxKey == 2
MaxVal == 1

\* most bytes that follow the selector in the output of a revert handed to a
\* classifier
MaxPayload == 1

----------------------------------------------------------------------------
(* Option, Result and HashMap *)

None == [some |-> FALSE]
Some(x) == [some |-> TRUE, val |-> x]

Ok(x) == [ok |-> TRUE, val |-> x]
Err(e) == [ok |-> FALSE, err |-> e]

EmptyMap == <<>>
Put(m, k, v) == [x \in (DOMAIN m) \cup {k} |-> IF x = k THEN v ELSE m[x]]
Remove(m, k) == [x \in (DOMAIN m) \ {k} |-> m[x]]
Get(m, k) == IF k \in DOMAIN m THEN Some(m[k]) ELSE None

----------------------------------------------------------------------------
(* Addresses: utils.rs *)

SYSTEM_ADDRESS == 0
GENESIS_ADDR == 4104
SYSTEM_CALLER == 255
EPOCH_MANAGER_ADDR == 243
STAKE_CONFIG_ADDR == 8200
DELEGATION_ADDR == 8201
VALIDATOR_MANAGER_ADDR == 8208
VALIDATOR_PERFORMANCE_TRACKER_ADDR == 8203
BLOCK_ADDR == 8193
TIMESTAMP_ADDR == 8196
JWK_MANAGER_ADDR == 8194
KEYLESS_ACCOUNT_ADDR == 8202
SYSTEM_REWARD_ADDR == 4098
GOV_HUB_ADDR == 4103
STAKE_CREDIT_ADDR == 8195
GOV_TOKEN_ADDR == 8197
GOVERNOR_ADDR == 8198
TIMELOCK_ADDR == 8199

\* Address::create(nonce): keccak256(rlp([sender, nonce]))[12..], taken to be
\* collision free: distinct (sender, nonce) give distinct addresses, none of
\* them one of the well-known addresses above (all below 65536).
CreateAddress(sender, nonce) == (sender + 1) * 65536 + nonce

\* keccak256 of a byte string, taken to be collision free
Keccak(bytes) == <<"keccak256", bytes>>
KECCAK_EMPTY == Keccak("")

----------------------------------------------------------------------------
(* storage.rs: InMemoryDB and its DatabaseRef implementation *)

\* InMemoryDB::new
InMemoryDB(accounts, bytecodes, block_hashes) ==
    [accounts |-> accounts, bytecodes |-> bytecodes, block_hashes |-> block_hashes]

\* a basic_ref that answers a missing account with the default info
basic_ref_DefaultForMissing(d, address) ==
    Ok(Some(IF address \in DOMAIN d.accounts THEN d.accounts[address].info
            ELSE [balance |-> 0, nonce |-> 0, code_hash |-> KECCAK_EMPTY, code |-> None]))

\* fn basic_ref: Ok(self.accounts.get(&address).map(|account| account.info.clone()))
basic_ref(d, address) ==
    Ok(IF address \in DOMAIN d.accounts THEN Some(d.accounts[address].info) ELSE None)

\* fn code_by_hash_ref: self.bytecodes.get(&code_hash).cloned().ok_or("can't find code by hash")
code_by_hash_ref(d, code_hash) ==
    IF code_hash \in DOMAIN d.bytecodes
    THEN Ok(d.bytecodes[code_hash])
    ELSE Err(<<"can't find code by hash", code_hash>>)

\* fn storage_ref: self.accounts.get(&address).ok_or("can't find account")?;
\*                 Ok(storage.storage.get(&index).cloned().unwrap_or_default())
storage_ref(d, address, index) ==
    IF address \notin DOMAIN d.accounts
    THEN Err(<<"can't find account", address>>)
    ELSE IF index \in DOMAIN d.accounts[address].storage
         THEN Ok(d.accounts[address].storage[index])
         ELSE Ok(0)

\* fn block_hash_ref: the recorded hash, else keccak256(number.to_string())
block_hash_ref(d, number) ==
    IF number \in DOMAIN d.block_hashes
    THEN Ok(d.block_hashes[number])
    ELSE Ok(Keccak(<<"to_string", number>>))

----------------------------------------------------------------------------
(* revm State: the cumulative view the Evm executes against.               *)
(* utils.rs builds it with StateBuilder and drives it through the Evm;     *)
(* the definitions follow what those calls do.                             *)

\* AccountInfo::default(), and the info of a freshly created contract
DefaultInfo == [balance |-> 0, nonce |-> 0, code_hash |-> KECCAK_EMPTY, code |-> None]
ContractInfo(code) == [balance |-> 0, nonce |-> 1, code_hash |-> Keccak(code), code |-> Some(code)]

\* AccountInfo::is_empty
InfoIsEmpty(info) == info.balance = 0 /\ info.nonce = 0 /\ info.code_hash = KECCAK_EMPTY

EmptyBundle == [state |-> EmptyMap, contracts |-> EmptyMap]

\* StateBuilder::new().with_bundle_prestate(b) / .with_bundle_update(),
\* then .with_database_ref(db).build()
NewState(database, pre_bundle_state) ==
    IF pre_bundle_state.some
    THEN [database |-> database, cache |-> EmptyMap, transition_state |-> None,
          bundle_state |-> pre_bundle_state.val, use_preloaded_bundle |-> TRUE]
    ELSE [database |-> database, cache |-> EmptyMap, transition_state |-> Some(EmptyMap),
          bundle_state |-> EmptyBundle, use_preloaded_bundle |-> FALSE]

\* From<BundleAccount> for CacheAccount
CacheFromBundle(b) ==
    [account |-> IF b.info.some
                 THEN Some([info |-> b.info.val,
                            storage |-> [k \in DOMAIN b.storage |-> b.storage[k].present]])
                 ELSE None,
     status |-> b.status]

\* CacheAccount of an account read from the database
CacheFromDb(r) ==
    IF r.some
    THEN [account |-> Some([info |-> r.val, storage |-> EmptyMap]),
          status |-> IF InfoIsEmpty(r.val) THEN "LoadedEmptyEIP161" ELSE "Loaded"]
    ELSE [account |-> None, status |-> "LoadedNotExisting"]

\* State::load_cache_account: the cache, else the preloaded bundle, else the database
LoadCacheAccount(st, a) ==
    IF a \in DOMAIN st.cache THEN st
    ELSE IF st.use_preloaded_bundle /\ a \in DOMAIN st.bundle_state.state
    THEN [st EXCEPT !.cache = Put(@, a, CacheFromBundle(st.bundle_state.state[a]))]
    ELSE [st EXCEPT !.cache = Put(@, a, CacheFromDb(basic_ref(st.database, a).val))]

\* AccountStatus::is_storage_known
IsStorageKnown(status) ==
    status \in {"LoadedNotExisting", "InMemoryChange", "Destroyed",
                "DestroyedChanged", "DestroyedAgain"}

\* State::storage of a loaded account: the cached slot, zero when the storage is
\* known, else the database
StateStorage(st, a, index) ==
    LET ca == st.cache[a] IN
    IF ~ca.account.some THEN Ok(0)
    ELSE IF index \in DOMAIN ca.account.val.storage THEN Ok(ca.account.val.storage[index])
    ELSE IF IsStorageKnown(ca.status) THEN Ok(0)
    ELSE storage_ref(st.database, a, index)

\* the slot State::storage keeps in the cache once it has read it
CacheSlot(st, a, index, v) ==
    IF st.cache[a].account.some
    THEN [st EXCEPT !.cache[a].account.val.storage = Put(@, index, v)]
    ELSE st

\* AccountStatus::on_changed
OnChanged(status, had_no_nonce_and_code) ==
    CASE status \in {"LoadedNotExisting", "LoadedEmptyEIP161"} -> "InMemoryChange"
      [] status = "Loaded" -> IF had_no_nonce_and_code THEN "InMemoryChange" ELSE "Changed"
      [] status \in {"Changed", "InMemoryChange"} -> status
      [] OTHER -> "DestroyedChanged"

\* AccountStatus::on_created
OnCreated(status) ==
    IF status \in {"Destroyed", "DestroyedChanged", "DestroyedAgain"}
    THEN "DestroyedChanged" ELSE "InMemoryChange"

PreviousInfo(ca) == IF ca.account.some THEN Some(ca.account.val.info) ELSE None

\* the slots of a diff entry that changed (StorageSlot::is_changed)
ChangedSlots(storage) ==
    [k \in {x \in DOMAIN storage : storage[x].original # storage[x].present} |-> storage[k]]

\* CacheState::apply_account_state for one touched account of the diff:
\* the account as the cache holds it afterwards
ApplyCache(ca, d) ==
    IF d.created
    THEN [account |-> Some([info |-> d.info,
                            storage |-> [k \in DOMAIN d.storage |-> d.storage[k].present]]),
          status |-> OnCreated(ca.status)]
    ELSE IF InfoIsEmpty(d.info)
    THEN [account |-> None,
          status |-> IF ca.status = "LoadedNotExisting" THEN ca.status ELSE "Destroyed"]
    ELSE LET old == IF ca.account.some THEN ca.account.val.storage ELSE EmptyMap
             ch == ChangedSlots(d.storage)
         IN [account |-> Some([info |-> d.info,
                               storage |-> [k \in (DOMAIN old) \cup (DOMAIN ch) |->
                                              IF k \in DOMAIN ch THEN ch[k].present ELSE old[k]]]),
             status |-> OnChanged(ca.status,
                                  ca.account.some
                                  /\ ca.account.val.info.nonce = 0
                                  /\ ca.account.val.info.code_hash = KECCAK_EMPTY)]

\* ... and the TransitionAccount it yields (None for a touched account that does
\* not exist and stays empty)
ApplyTransition(ca, d) ==
    IF d.created
    THEN Some([info |-> Some(d.info), status |-> OnCreated(ca.status),
               previous_info |-> PreviousInfo(ca), previous_status |-> ca.status,
               storage |-> [k \in DOMAIN d.storage |->
                              [original |-> 0, present |-> d.storage[k].present]]])
    ELSE IF InfoIsEmpty(d.info)
    THEN IF ca.status \in {"LoadedNotExisting", "Destroyed", "DestroyedAgain"}
         THEN None
         ELSE Some([info |-> None, status |-> "Destroyed",
                    previous_info |-> PreviousInfo(ca), previous_status |-> ca.status,
                    storage |-> EmptyMap])
    ELSE Some([info |-> Some(d.info), status |-> ApplyCache(ca, d).status,
               previous_info |-> PreviousInfo(ca), previous_status |-> ca.status,
               storage |-> ChangedSlots(d.storage)])

\* an update that keeps the first value written to a slot
TransitionUpdate_KeepFirst(t, other) ==
    [t EXCEPT !.info = other.info, !.status = other.status,
              !.storage = [k \in (DOMAIN t.storage) \cup (DOMAIN other.storage) |->
                             IF k \in DOMAIN t.storage THEN t.storage[k] ELSE other.storage[k]]]

\* TransitionAccount::update: a later transition of the same account
TransitionUpdate(t, other) ==
    [t EXCEPT !.info = other.info, !.status = other.status,
              !.storage =
                 IF other.status \in {"Destroyed", "DestroyedAgain"} THEN other.storage
                 ELSE LET keep == {k \in DOMAIN t.storage :
                                      ~(k \in DOMAIN other.storage
                                        /\ t.storage[k].original = other.storage[k].present)}
                          new == (DOMAIN other.storage) \ (DOMAIN t.storage)
                      IN [k \in keep \cup new |->
                            IF k \in new THEN other.storage[k]
                            ELSE IF k \in DOMAIN other.storage
                                 THEN [t.storage[k] EXCEPT !.present = other.storage[k].present]
                                 ELSE t.storage[k]]]

\* TransitionState::add_transitions
AddTransitions(ts, new) ==
    [a \in (DOMAIN ts) \cup (DOMAIN new) |->
        IF a \notin DOMAIN new THEN ts[a]
        ELSE IF a \notin DOMAIN ts THEN new[a]
        ELSE TransitionUpdate(ts[a], new[a])]

\* the touched accounts of a diff
Touched(diff) == {a \in DOMAIN diff : diff[a].touched}

\* State::commit that drops the diff
CommitState_Skip(st, diff) == st

\* State::commit that also writes the changed accounts through to the database
CommitState_WriteThrough(st, diff) ==
    [st EXCEPT
       !.cache = [a \in DOMAIN st.cache |->
                     IF a \in Touched(diff) THEN ApplyCache(st.cache[a], diff[a])
                     ELSE st.cache[a]],
       !.database.accounts =
           [a \in (DOMAIN @) \cup Touched(diff) |->
               IF a \in Touched(diff)
               THEN [info |-> diff[a].info,
                     storage |-> [k \in DOMAIN diff[a].storage |-> diff[a].storage[k].present]]
               ELSE @[a]]]

\* State::commit (DatabaseCommit): apply the diff to the cache and record the
\* transitions; the database is not written
CommitState(st, diff) ==
    LET tr == {a \in Touched(diff) : ApplyTransition(st.cache[a], diff[a]).some}
        new == [a \in tr |-> ApplyTransition(st.cache[a], diff[a]).val]
    IN [st EXCEPT
          !.cache = [a \in DOMAIN st.cache |->
                        IF a \in Touched(diff) THEN ApplyCache(st.cache[a], diff[a])
                        ELSE st.cache[a]],
          !.transition_state = IF @.some THEN Some(AddTransitions(@.val, new)) ELSE @]

\* a transition that changes nothing creates no revert and no bundle entry
TransitionChanges(t) == t.info # t.previous_info \/ DOMAIN t.storage # {}

\* a test that sees new code only on an account that existed before
HasNewContract_OnlyExisting(t) ==
    /\ t.info.some /\ t.info.val.code.some
    /\ t.previous_info.some
    /\ t.previous_info.val.code_hash # t.info.val.code_hash

\* TransitionAccount::has_new_contract: the code hash differs from the previous
\* one (None for an account that did not exist) and the info carries the code
HasNewContract(t) ==
    /\ t.info.some /\ t.info.val.code.some
    /\ (~t.previous_info.some \/ t.previous_info.val.code_hash # t.info.val.code_hash)

\* BundleState::apply_transitions_and_create_reverts
ApplyTransitions(bundle, ts) ==
    LET newcode == {a \in DOMAIN ts : HasNewContract(ts[a])}
        ins == {a \in DOMAIN ts : a \in DOMAIN bundle.state \/ TransitionChanges(ts[a])}
    IN [state |->
          [a \in (DOMAIN bundle.state) \cup ins |->
             IF a \notin DOMAIN ts THEN bundle.state[a]
             ELSE IF a \notin DOMAIN bundle.state
             THEN [info |-> ts[a].info, original_info |-> ts[a].previous_info,
                   storage |-> ts[a].storage, status |-> ts[a].status]
             ELSE [bundle.state[a] EXCEPT
                     !.info = ts[a].info, !.status = ts[a].status,
                     !.storage = [k \in (DOMAIN @) \cup (DOMAIN ts[a].storage) |->
                                    IF k \in DOMAIN ts[a].storage
                                    THEN IF k \in DOMAIN @
                                         THEN [@[k] EXCEPT !.present = ts[a].storage[k].present]
                                         ELSE ts[a].storage[k]
                                    ELSE @[k]]]],
        contracts |->
          [h \in (DOMAIN bundle.contracts) \cup {ts[a].info.val.code_hash : a \in newcode} |->
             IF h \in DOMAIN bundle.contracts THEN bundle.contracts[h]
             ELSE ts[CHOOSE a \in newcode : ts[a].info.val.code_hash = h].info.val.code.val]]

\* State::merge_transitions(BundleRetention::Reverts): a State built without
\* with_bundle_update has no transition state and merges nothing
MergeTransitions(st) ==
    IF st.transition_state.some
    THEN [st EXCEPT !.bundle_state = ApplyTransitions(@, st.transition_state.val),
                    !.transition_state = Some(EmptyMap)]
    ELSE st

\* State::take_bundle
TakeBundle(st) == st.bundle_state

----------------------------------------------------------------------------
(* Transactions and the Evm (the contract-execution capability)            *)

\* utils.rs new_system_create_txn / new_system_call_txn. The data of a create is
\* the content of the contract's hex file (what its constructor does), the data of
\* a call is the call's input (what the called code does with it).
Data(op, key, val) == [op |-> op, key |-> key, val |-> val]

new_system_create_txn(hex_code) ==
    [caller |-> SYSTEM_ADDRESS, transact_to |-> [kind |-> "Create", to |-> SYSTEM_ADDRESS],
     data |-> hex_code]

new_system_call_txn(contract, input) ==
    [caller |-> SYSTEM_ADDRESS, transact_to |-> [kind |-> "Call", to |-> contract],
     data |-> input]

\* the runtime code a successful deployment installs: a storage cell that
\* answers "get", "set" and "revert" inputs
RuntimeCode == "cell"

\* the runtime code the init code of a hex file returns: the file whose
\* constructor stores a slot carries another contract's code
RuntimeCodeOf(hex_code) == IF hex_code.key # 0 THEN "cell with constructor" ELSE RuntimeCode

ResultOf(kind, output) == [kind |-> kind, output |-> output]

\* ExecutionResult::is_success
\* a test that lets a Halt pass
is_success_NotRevert(r) == r.kind # "Revert"

is_success(r) == r.kind = "Success"

\* one account of the diff evm.transact() returns
DiffAccount(info, storage, created) ==
    [info |-> info, storage |-> storage, touched |-> TRUE, created |-> created]

VmOk(st, result, diff) == [ok |-> TRUE, state |-> st, result |-> result, diff |-> diff]
VmErr(st, e) == [ok |-> FALSE, state |-> st, err |-> e]

\* State::code_by_hash: the preloaded bundle's contracts, else the database
StateCodeByHash(st, h) ==
    IF st.use_preloaded_bundle /\ h \in DOMAIN st.bundle_state.contracts
    THEN Ok(st.bundle_state.contracts[h])
    ELSE code_by_hash_ref(st.database, h)

\* a create transaction: the new address comes from the caller's nonce in the
\* cumulative view; the caller's nonce bump survives a revert or halt
TransactCreate(s1, tx, nonce, callerDiff) ==
    LET addr == CreateAddress(tx.caller, nonce)
        s2 == LoadCacheAccount(s1, addr)
        t == s2.cache[addr].account
        collision == t.some /\ (t.val.info.nonce # 0 \/ t.val.info.code_hash # KECCAK_EMPTY)
        base == (tx.caller :> callerDiff)
    IN IF collision THEN VmOk(s2, ResultOf("Halt", <<"CreateCollision">>), base)
       ELSE IF tx.data.op = "revert" THEN VmOk(s2, ResultOf("Revert", <<>>), base)
       ELSE IF tx.data.op = "halt" THEN VmOk(s2, ResultOf("Halt", <<"InvalidFEOpcode">>), base)
       ELSE VmOk(s2, ResultOf("Success", <<addr>>),
                 (addr :> DiffAccount(ContractInfo(RuntimeCodeOf(tx.data)),
                                      IF tx.data.key # 0
                                      THEN (tx.data.key :> [original |-> 0, present |-> tx.data.val])
                                      ELSE EmptyMap,
                                      TRUE)) @@ base)

\* a call transaction: runs the code of the target in the cumulative view
TransactCall(s1, tx, callerDiff) ==
    LET to == tx.transact_to.to
        s2 == LoadCacheAccount(s1, to)
        t == s2.cache[to].account
        info == IF t.some THEN t.val.info ELSE DefaultInfo
        base == (tx.caller :> callerDiff)
        code == IF info.code.some THEN Ok(info.code.val) ELSE StateCodeByHash(s2, info.code_hash)
        slot == StateStorage(s2, to, tx.data.key)
    IN IF info.code_hash = KECCAK_EMPTY
       THEN VmOk(s2, ResultOf("Success", <<>>), (to :> DiffAccount(info, EmptyMap, FALSE)) @@ base)
       ELSE IF ~code.ok THEN VmErr(s2, <<"Database", code.err>>)
       ELSE IF tx.data.op = "revert" THEN VmOk(s2, ResultOf("Revert", <<>>), base)
       ELSE IF ~slot.ok THEN VmErr(s2, <<"Database", slot.err>>)
       ELSE IF tx.data.op = "get"
       THEN VmOk(CacheSlot(s2, to, tx.data.key, slot.val), ResultOf("Success", <<slot.val>>),
                 (to :> DiffAccount(info, EmptyMap, FALSE)) @@ base)
       ELSE VmOk(CacheSlot(s2, to, tx.data.key, slot.val), ResultOf("Success", <<>>),
                 (to :> DiffAccount(info,
                                    (tx.data.key :> [original |-> slot.val, present |-> tx.data.val]),
                                    FALSE)) @@ base)

\* evm.transact(): a VM-level error (here: init code over the size limit, or a
\* database error) or an ExecutionResult with the state diff
Transact(st, tx) ==
    IF tx.transact_to.kind = "Create" /\ tx.data.op = "oversized"
    THEN VmErr(st, <<"Transaction", "CreateInitCodeSizeLimit">>)
    ELSE LET s1 == LoadCacheAccount(st, tx.caller)
             c == s1.cache[tx.caller].account
             cinfo == IF c.some THEN c.val.info ELSE DefaultInfo
             callerDiff == DiffAccount([cinfo EXCEPT !.nonce = @ + 1], EmptyMap, FALSE)
         IN IF tx.transact_to.kind = "Create"
            THEN TransactCreate(s1, tx, cinfo.nonce, callerDiff)
            ELSE TransactCall(s1, tx, callerDiff)

----------------------------------------------------------------------------
(* utils.rs execute_revm_sequential_with_logging                           *)

\* a loop body that records a VM-level error as a result and goes on
LoopBody_SkipError(st, res, tx) ==
    LET r == Transact(st, tx) IN
    IF r.ok
    THEN [ok |-> TRUE, state |-> CommitState(r.state, r.diff), results |-> Append(res, r.result)]
    ELSE [ok |-> TRUE, state |-> r.state, results |-> Append(res, ResultOf("Halt", r.err))]

\* a loop body that puts the new result in front of the earlier ones
LoopBody_Prepend(st, res, tx) ==
    LET r == Transact(st, tx) IN
    IF r.ok
    THEN [ok |-> TRUE, state |-> CommitState(r.state, r.diff), results |-> <<r.result>> \o res]
    ELSE [ok |-> FALSE, state |-> r.state, err |-> r.err]

\* a loop body that returns an error at the first result that is not a success
LoopBody_StopAtFailure(st, res, tx) ==
    LET r == Transact(st, tx) IN
    IF r.ok /\ is_success(r.result)
    THEN [ok |-> TRUE, state |-> CommitState(r.state, r.diff), results |-> Append(res, r.result)]
    ELSE IF r.ok
    THEN [ok |-> FALSE, state |-> CommitState(r.state, r.diff),
          err |-> <<"transaction failed", Len(res) + 1>>]
    ELSE [ok |-> FALSE, state |-> r.state, err |-> r.err]

\* the body of the loop: transact()?, commit, push
LoopBody(st, res, tx) ==
    LET r == Transact(st, tx) IN
    IF r.ok
    THEN [ok |-> TRUE, state |-> CommitState(r.state, r.diff), results |-> Append(res, r.result)]
    ELSE [ok |-> FALSE, state |-> r.state, err |-> r.err]

\* an exit that takes the bundle without merging the transitions
LoopExit_NoMerge(st, res) ==
    [state |-> [st EXCEPT !.bundle_state = EmptyBundle],
     ret |-> Ok([results |-> res, bundle |-> TakeBundle(st)])]

\* after the loop: merge_transitions, Ok((results, take_bundle()))
LoopExit(st, res) ==
    LET merged == MergeTransitions(st) IN
    [state |-> [merged EXCEPT !.bundle_state = EmptyBundle],
     ret |-> Ok([results |-> res, bundle |-> TakeBundle(merged)])]

----------------------------------------------------------------------------
(* contracts.rs: the deployment routine deploy_and_constrcut_all           *)

Contract(name, nonce, canonical) == [name |-> name, nonce |-> nonce, canonical |-> canonical]

\* the deploy_*_contract calls of the routine in order: the contract, the literal
\* n of SYSTEM_ADDRESS.create(n) in its deploy function, and the address its
\* addr_map.insert gives it (None where the routine inserts nothing)
DeployTable ==
    << Contract("System", 1, Some(SYSTEM_CALLER)),
       Contract("SystemReward", 2, Some(SYSTEM_REWARD_ADDR)),
       Contract("StakeConfig", 3, Some(STAKE_CONFIG_ADDR)),
       Contract("ValidatorManager", 4, Some(VALIDATOR_MANAGER_ADDR)),
       Contract("ValidatorPerformanceTracker", 5, Some(VALIDATOR_PERFORMANCE_TRACKER_ADDR)),
       Contract("EpochManager", 6, Some(EPOCH_MANAGER_ADDR)),
       Contract("GovToken", 7, Some(GOV_TOKEN_ADDR)),
       Contract("Timelock", 8, Some(TIMELOCK_ADDR)),
       Contract("GravityGovernor", 9, Some(GOVERNOR_ADDR)),
       Contract("JWKManager", 10, Some(JWK_MANAGER_ADDR)),
       Contract("KeylessAccount", 11, Some(KEYLESS_ACCOUNT_ADDR)),
       Contract("Block", 12, Some(BLOCK_ADDR)),
       Contract("Timestamp", 13, Some(TIMESTAMP_ADDR)),
       Contract("Genesis", 14, Some(GENESIS_ADDR)),
       Contract("StakeCredit", 15, Some(STAKE_CREDIT_ADDR)),
       Contract("Delegation", 16, Some(DELEGATION_ADDR)),
       Contract("GovHub", 17, Some(GOV_HUB_ADDR)),
       Contract("Groth16Verifier", 18, None),
       Contract("JWKUtils", 19, None),
       Contract("Protectable", 20, None),
       Contract("Bytes", 21, None) >>

NumDeploy == Len(DeployTable)

\* the last deploy function written with the literal of the one before it
DeployAddress_Repeat(k) ==
    CreateAddress(SYSTEM_ADDRESS, DeployTable[IF k = NumDeploy THEN k - 1 ELSE k].nonce)

\* the address deploy_*_contract returns for the k-th contract of the table
DeployAddress(k) == CreateAddress(SYSTEM_ADDRESS, DeployTable[k].nonce)

\* the second insert written with the first one's canonical address
InsertAddr_CopyPaste(map, k) ==
    IF DeployTable[k].canonical.some
    THEN Put(map, DeployAddress(k), DeployTable[IF k = 2 THEN 1 ELSE k].canonical.val)
    ELSE map

\* addr_map.insert(address, canonical) of the k-th step, where the routine has one
InsertAddr(map, k) ==
    IF DeployTable[k].canonical.some
    THEN Put(map, DeployAddress(k), DeployTable[k].canonical.val)
    ELSE map

\* addr_map after the first n steps
RECURSIVE AddrMapAfter(_)
AddrMapAfter(n) == IF n = 0 THEN EmptyMap ELSE InsertAddr(AddrMapAfter(n - 1), n)

\* a snapshot whose deployer starts at nonce 0
GenesisDb_NonceZero ==
    InMemoryDB((SYSTEM_ADDRESS :>
                  [info |-> [balance |-> 1, nonce |-> 0, code_hash |-> KECCAK_EMPTY, code |-> None],
                   storage |-> EmptyMap]),
               EmptyMap, EmptyMap)

\* the snapshot the routine starts from: the deployer alone, nonce 1, no code
GenesisDb ==
    InMemoryDB((SYSTEM_ADDRESS :>
                  [info |-> [balance |-> 1, nonce |-> 1, code_hash |-> KECCAK_EMPTY, code |-> None],
                   storage |-> EmptyMap]),
               EmptyMap, EmptyMap)

Panic(text, index, cause) == [text |-> text, index |-> index, cause |-> cause]

\* .unwrap() of the executor's Err: the panic shows the error's Debug text
UnwrapPanic(e) == Panic("called Result::unwrap() on an Err value", None, Some(e))

\* a scan that reports the last failure
FirstFailure_Last(res) ==
    IF \E k \in 1..Len(res) : ~is_success(res[k])
    THEN CHOOSE k \in 1..Len(res) :
            ~is_success(res[k]) /\ \A j \in (k + 1)..Len(res) : is_success(res[j])
    ELSE 0

\* the scan of the results: the 1-based index of the first result that is not a
\* success, 0 when every result is one
FirstFailure(res) ==
    IF \E k \in 1..Len(res) : ~is_success(res[k])
    THEN CHOOSE k \in 1..Len(res) :
            ~is_success(res[k]) /\ \A j \in 1..(k - 1) : is_success(res[j])
    ELSE 0

\* panic!("transaction {} failed", i + 1)
FailedPanic(k) == Panic("transaction {} failed", Some(k), None)

\* panic!("Genesis transaction {} failed", i + 1)
GenesisFailedPanic(k) == Panic("Genesis transaction {} failed", Some(k), None)

\* the key an entry of the bundle gets: addr_map.get(&address), else the address
NewKey(map, address) == IF address \in DOMAIN map THEN map[address] ELSE address

\* a finalization that forgets to take the deployer's account out
RemoveScratch_Keep(bstate) == bstate

\* bundle_state.state.remove(&SYSTEM_ADDRESS)
RemoveScratch(bstate) == Remove(bstate, SYSTEM_ADDRESS)

\* a remapping that keeps only the entries the table has a key for
Remapped_DropUnmapped(bstate, map) ==
    {[t \in {map[a] : a \in (DOMAIN bstate) \cap (DOMAIN map)} |->
        bstate[CHOOSE a \in (DOMAIN bstate) \cap (DOMAIN map) : map[a] = t]]}

\* .into_iter().map(..).collect(): the entries are inserted into the new HashMap
\* in the traversal order of the old one, which is unspecified; where several
\* entries get the same key, the last one traversed stays, and any of them can be
\* last. All maps some traversal order yields:
Remapped(bstate, map) ==
    LET keys == {NewKey(map, a) : a \in DOMAIN bstate}
        Sources(t) == {a \in DOMAIN bstate : NewKey(map, a) = t}
        shared == {t \in keys : Cardinality(Sources(t)) > 1}
        last == {w \in [shared -> DOMAIN bstate] : \A t \in shared : w[t] \in Sources(t)}
    IN {[t \in keys |-> IF t \in shared THEN bstate[w[t]]
                        ELSE bstate[CHOOSE a \in Sources(t) : TRUE]] : w \in last}

----------------------------------------------------------------------------
(* The routine as a state machine *)

\* what the hex file of a contract can hold: a plain deployment, a constructor
\* that stores a slot, one that reverts, one that halts, code over the size limit
Plain == Data("deploy", 0, 0)
HexFiles == {Plain, Data("deploy", 1, 7), Data("revert", 0, 0), Data("halt", 0, 0),
             Data("oversized", 0, 0)}

\* inputs of a call to a deployed contract
CallInputs == {Data("get", 1, 0), Data("set", 1, 9), Data("set", 1, 0), Data("revert", 0, 0)}

\* the transactions the routine's helpers build
TxEnvs ==
    {new_system_create_txn(c) : c \in HexFiles}
    \cup {new_system_call_txn(DeployAddress(1), inp) : inp \in CallInputs}

RECURSIVE SeqsUpTo(_, _)
SeqsUpTo(S, n) ==
    IF n = 0 THEN {<<>>}
    ELSE SeqsUpTo(S, n - 1) \cup {Append(q, x) : q \in {p \in SeqsUpTo(S, n - 1) : Len(p) = n - 1}, x \in S}

\* how many transactions of a list are not plain deployments
Faults(list) == Cardinality({k \in 1..Len(list) : list[k].data # Plain})

Idle ==
    /\ state = None /\ i = 0 /\ results = <<>> /\ ret = None
    /\ panic = None /\ out = None /\ diffs = <<>>

\* the executor called on a transaction list of the routine's kind, with the
\* snapshot and the address table of deploy_and_constrcut_all
Init ==
    /\ bundle_state = None
    /\ db = GenesisDb
    /\ query = None
    /\ txs \in SeqsUpTo(TxEnvs, MaxTxs)
    /\ routine = "deploy_and_constrcut_all"
    /\ addr_map = AddrMapAfter(NumDeploy)
    /\ addresses = [k \in 1..NumDeploy |-> DeployAddress(k)]
    /\ built = NumDeploy
    /\ pc = "start"
    /\ run = 1 /\ first = None
    /\ Idle

\* one deploy_*_contract step: read the hex file, push the transaction, insert
\* the address
DeployStep ==
    /\ pc = "build"
    /\ built < NumDeploy
    /\ \E hex \in HexFiles :
          /\ Faults(Append(txs, new_system_create_txn(hex))) <= MaxFaults
          /\ txs' = Append(txs, new_system_create_txn(hex))
    /\ addresses' = Append(addresses, DeployAddress(built + 1))
    /\ addr_map' = IF routine = "deploy_and_constrcut_all"
                   THEN InsertAddr(addr_map, built + 1) ELSE addr_map
    /\ built' = built + 1
    /\ pc' = IF built + 1 < NumDeploy THEN "build"
             ELSE IF routine = "genesis_generate" THEN "init" ELSE "start"
    /\ UNCHANGED <<routine, db, bundle_state, query, state, i, results, ret, panic, out, diffs, run, first>>

\* the executor builds its State and Evm
Start ==
    /\ pc = "start"
    /\ state' = NewState(db, bundle_state)
    /\ i' = 0
    /\ results' = <<>>
    /\ pc' = "exec"
    /\ UNCHANGED <<routine, db, bundle_state, query, txs, addr_map, addresses, built, ret, panic, out, diffs, run, first>>

\* one turn of the executor's loop
ExecTx ==
    /\ pc = "exec"
    /\ i < Len(txs)
    /\ LET b == LoopBody(state, results, txs[i + 1])
           vm == Transact(state, txs[i + 1])
       IN /\ state' = b.state
          /\ diffs' = Append(diffs, IF vm.ok THEN Some(vm.diff) ELSE None)
          /\ IF b.ok
             THEN /\ results' = b.results
                  /\ i' = i + 1
                  /\ UNCHANGED <<pc, ret>>
             ELSE /\ ret' = Err(b.err)
                  /\ pc' = "returned"
                  /\ UNCHANGED <<results, i>>
    /\ UNCHANGED <<routine, db, bundle_state, query, txs, addr_map, addresses, built, panic, out, run, first>>

\* the executor leaves the loop and returns the results and the bundle
ExecDone ==
    /\ pc = "exec"
    /\ i = Len(txs)
    /\ state' = LoopExit(state, results).state
    /\ ret' = LoopExit(state, results).ret
    /\ pc' = "returned"
    /\ UNCHANGED <<routine, db, bundle_state, query, txs, addr_map, addresses, built, i, results, panic, out, diffs, run, first>>

\* the caller unwraps what the executor returned
Unwrap ==
    /\ pc = "returned"
    /\ IF ret.ok
       THEN pc' = "scan" /\ UNCHANGED panic
       ELSE pc' = "panic" /\ panic' = Some(UnwrapPanic(ret.err))
    /\ UNCHANGED <<routine, db, bundle_state, query, txs, addr_map, addresses, built, state, i, results, ret, out, diffs, run, first>>

\* the caller scans the results and panics at the first failure
ScanResults ==
    /\ pc = "scan"
    /\ IF FirstFailure(ret.val.results) # 0
       THEN /\ pc' = "panic"
            /\ panic' = Some(IF routine = "genesis_generate"
                             THEN GenesisFailedPanic(FirstFailure(ret.val.results))
                             ELSE FailedPanic(FirstFailure(ret.val.results)))
       ELSE pc' = "finalize" /\ UNCHANGED panic
    /\ UNCHANGED <<routine, db, bundle_state, query, txs, addr_map, addresses, built, state, i, results, ret, out, diffs, run, first>>

\* the caller drops the deployer's account and rewrites the addresses
Finalize ==
    /\ pc = "finalize"
    /\ routine = "deploy_and_constrcut_all"
    /\ \E m \in Remapped(RemoveScratch(ret.val.bundle.state), addr_map) : out' = Some(m)
    /\ pc' = "done"
    /\ UNCHANGED <<routine, db, bundle_state, query, txs, addr_map, addresses, built, state, i, results, ret, panic, diffs, run, first>>

\* the routine is run again on the same inputs
Rerun ==
    /\ pc \in {"done", "panic"}
    /\ run = 1
    /\ run' = 2
    /\ first' = Some([pc |-> pc, ret |-> ret, panic |-> panic, out |-> out])
    /\ pc' = "start"
    /\ state' = None /\ i' = 0 /\ results' = <<>> /\ ret' = None
    /\ panic' = None /\ out' = None /\ diffs' = <<>>
    /\ UNCHANGED <<routine, db, bundle_state, query, txs, addr_map, addresses, built>>

\* the routine from its beginning: nothing deployed yet
InitDeploy ==
    /\ bundle_state = None
    /\ db = GenesisDb
    /\ query = None
    /\ txs = <<>>
    /\ routine = "deploy_and_constrcut_all"
    /\ addr_map = EmptyMap
    /\ addresses = <<>>
    /\ built = 0
    /\ pc = "build"
    /\ run = 1 /\ first = None
    /\ Idle

NextDeploy == DeployStep \/ Start \/ ExecTx \/ ExecDone \/ Unwrap \/ ScanResults \/ Finalize

SpecDeploy == InitDeploy /\ [][NextDeploy]_vars

\* execute.rs execute_revm_sequential, the executor without logging: its loop
\* from a State, the results so far and the transactions left
RECURSIVE PlainLoop(_, _, _)
PlainLoop(st, res, list) ==
    IF list = <<>>
    THEN [ok |-> TRUE, state |-> st, results |-> res]
    ELSE LET r == Transact(st, Head(list)) IN
         IF ~r.ok THEN [ok |-> FALSE, err |-> r.err, failed_at |-> Len(res) + 1]
         ELSE PlainLoop(CommitState(r.state, r.diff), Append(res, r.result), Tail(list))

\* ... and what it returns: the results and the merged Bundle, or the error of
\* transact() (failed_at: the transaction whose transact() failed, 0 for none)
execute_revm_sequential(d, list) ==
    LET l == PlainLoop(NewState(d, None), <<>>, list) IN
    IF l.ok
    THEN [ret |-> Ok([results |-> l.results, bundle |-> TakeBundle(MergeTransitions(l.state))]),
          failed_at |-> 0]
    ELSE [ret |-> Err(l.err), failed_at |-> l.failed_at]

\* the position of a contract in the order of the deploy_*_contract calls
IndexOf(name) == CHOOSE k \in 1..NumDeploy : DeployTable[k].name = name

\* an initialization call sent to the canonical Genesis address
call_genesis_initialize_Canonical(genesis_address, call_data) ==
    new_system_call_txn(GENESIS_ADDR, call_data)

\* call_genesis_initialize: the call of Genesis.initialize with the encoded
\* configuration, sent to the address it is given
call_genesis_initialize(genesis_address, call_data) ==
    new_system_call_txn(genesis_address, call_data)

\* what Genesis.initialize does with the configuration: it stores it, or reverts
InitializeInputs == {Data("set", 1, 9), Data("revert", 0, 0)}

\* genesis_generate starts like deploy_and_constrcut_all, without a table
InitGenesis ==
    /\ bundle_state = None
    /\ db = GenesisDb
    /\ query = None
    /\ txs = <<>>
    /\ routine = "genesis_generate"
    /\ addr_map = EmptyMap
    /\ addresses = <<>>
    /\ built = 0
    /\ pc = "build"
    /\ run = 1 /\ first = None
    /\ Idle

\* after the 21 deployments: push the initialization call to the address
\* deploy_genesis_contract returned
PushInitialize ==
    /\ pc = "init"
    /\ routine = "genesis_generate"
    /\ \E call_data \in InitializeInputs :
          txs' = Append(txs, call_genesis_initialize(addresses[IndexOf("Genesis")], call_data))
    /\ pc' = "start"
    /\ UNCHANGED <<routine, db, bundle_state, query, addr_map, addresses, built, state, i, results, ret,
                   panic, out, diffs, run, first>>

\* the accounts of the bundle as PlainAccounts: info.unwrap() and the present
\* values of the slots
PlainAccounts(bstate) ==
    [a \in DOMAIN bstate |->
        [info |-> bstate[a].info.val,
         storage |-> [k \in DOMAIN bstate[a].storage |-> bstate[a].storage[k].present]]]

\* genesis_generate after the scan: drop the deployer's account and write
\* genesis_accounts.json and genesis_contracts.json
WriteFiles ==
    /\ pc = "finalize"
    /\ routine = "genesis_generate"
    /\ LET bstate == RemoveScratch(ret.val.bundle.state) IN
       IF \E a \in DOMAIN bstate : ~bstate[a].info.some
       THEN /\ pc' = "panic"
            /\ panic' = Some(Panic("called Option::unwrap() on a None value", None, None))
            /\ UNCHANGED out
       ELSE /\ pc' = "done"
            /\ out' = Some([genesis_accounts |-> PlainAccounts(bstate),
                            genesis_contracts |-> ret.val.bundle.contracts])
            /\ UNCHANGED panic
    /\ UNCHANGED <<routine, db, bundle_state, query, txs, addr_map, addresses, built, state, i, results, ret,
                   diffs, run, first>>

NextGenesis ==
    DeployStep \/ PushInitialize \/ Start \/ ExecTx \/ ExecDone \/ Unwrap \/ ScanResults
    \/ WriteFiles

SpecGenesis == InitGenesis /\ [][NextGenesis]_vars

\* storage maps over the bounded keys and values
Storages == UNION {[K -> 1..MaxVal] : K \in SUBSET (1..MaxKey)}

\* snapshots: the deployer and the Genesis contract, each there or not, with any
\* bounded storage; the contract's code and one block hash recorded or not
DbAccounts ==
    UNION {[A -> Storages] : A \in SUBSET {SYSTEM_ADDRESS, GENESIS_ADDR}}

DbInfo(a) ==
    IF a = SYSTEM_ADDRESS
    THEN [balance |-> 1, nonce |-> 1, code_hash |-> KECCAK_EMPTY, code |-> None]
    ELSE [ContractInfo(RuntimeCode) EXCEPT !.code = None]

InitDb ==
    /\ bundle_state = None
    /\ \E st \in DbAccounts, withCode \in BOOLEAN, withHash \in BOOLEAN :
          db = InMemoryDB([a \in DOMAIN st |-> [info |-> DbInfo(a), storage |-> st[a]]],
                          IF withCode THEN (Keccak(RuntimeCode) :> RuntimeCode) ELSE EmptyMap,
                          IF withHash THEN (1 :> Keccak("block 1")) ELSE EmptyMap)
    /\ query = None
    /\ txs = <<>>
    /\ routine = "none"
    /\ addr_map = EmptyMap
    /\ addresses = <<>>
    /\ built = 0
    /\ pc = "db"
    /\ run = 1 /\ first = None
    /\ Idle

Answer(op, args, result) == Some([op |-> op, args |-> args, result |-> result])

QueryAddresses == {SYSTEM_ADDRESS, GENESIS_ADDR, SYSTEM_CALLER}

\* the VM reads an account's info from the snapshot
QueryBasic ==
    /\ pc = "db"
    /\ \E a \in QueryAddresses : query' = Answer("basic_ref", <<a>>, basic_ref(db, a))
    /\ UNCHANGED <<routine, db, bundle_state, txs, addr_map, addresses, built, pc, state, i, results, ret, panic, out, diffs, run, first>>

\* the VM reads code by its hash
QueryCode ==
    /\ pc = "db"
    /\ \E h \in {Keccak(RuntimeCode), Keccak("other")} :
          query' = Answer("code_by_hash_ref", <<h>>, code_by_hash_ref(db, h))
    /\ UNCHANGED <<routine, db, bundle_state, txs, addr_map, addresses, built, pc, state, i, results, ret, panic, out, diffs, run, first>>

\* the VM reads a storage slot
QueryStorage ==
    /\ pc = "db"
    /\ \E a \in QueryAddresses, k \in 1..(MaxKey + 1) :
          query' = Answer("storage_ref", <<a, k>>, storage_ref(db, a, k))
    /\ UNCHANGED <<routine, db, bundle_state, txs, addr_map, addresses, built, pc, state, i, results, ret, panic, out, diffs, run, first>>

\* the VM reads a block hash
QueryBlockHash ==
    /\ pc = "db"
    /\ \E n \in 1..2 : query' = Answer("block_hash_ref", <<n>>, block_hash_ref(db, n))
    /\ UNCHANGED <<routine, db, bundle_state, txs, addr_map, addresses, built, pc, state, i, results, ret, panic, out, diffs, run, first>>

NextDb == QueryBasic \/ QueryCode \/ QueryStorage \/ QueryBlockHash

SpecDb == InitDb /\ [][NextDb]_vars

\* an account of a bundle: a deployed contract with the given slots written
BundleAccount(storage) ==
    [info |-> Some(ContractInfo(RuntimeCode)), original_info |-> None,
     storage |-> [k \in DOMAIN storage |-> [original |-> 0, present |-> storage[k]]],
     status |-> "InMemoryChange"]

\* the deployer's account as a bundle holds it
ScratchAccount ==
    [info |-> Some([balance |-> 1, nonce |-> 2, code_hash |-> KECCAK_EMPTY, code |-> None]),
     original_info |-> Some([balance |-> 1, nonce |-> 1, code_hash |-> KECCAK_EMPTY, code |-> None]),
     storage |-> EmptyMap, status |-> "Changed"]

\* raw bundles handed to the remapping: the first contract at its derived address
\* and an account at that contract's canonical address, each with any bounded
\* storage or absent; the second and the eighteenth contract, an account at the
\* second's canonical address, and the deployer, each there or not
RawBundles ==
    LET fixed == {SYSTEM_ADDRESS, DeployAddress(2), DeployAddress(18), SYSTEM_REWARD_ADDR}
        free == {DeployAddress(1), SYSTEM_CALLER}
    IN {[a \in F \cup DOMAIN g |->
            IF a \in DOMAIN g THEN BundleAccount(g[a])
            ELSE IF a = SYSTEM_ADDRESS THEN ScratchAccount
            ELSE BundleAccount(EmptyMap)] :
        F \in SUBSET fixed, g \in UNION {[A -> Storages] : A \in SUBSET free}}

\* the remapping applied to a raw bundle
InitRemap ==
    /\ bundle_state = None
    /\ db = GenesisDb
    /\ query = None
    /\ txs = <<>>
    /\ routine = "deploy_and_constrcut_all"
    /\ addr_map = AddrMapAfter(NumDeploy)
    /\ addresses = [k \in 1..NumDeploy |-> DeployAddress(k)]
    /\ built = NumDeploy
    /\ pc = "finalize"
    /\ run = 1 /\ first = None
    /\ state = None /\ i = 0 /\ results = <<>> /\ panic = None /\ out = None /\ diffs = <<>>
    /\ \E b \in RawBundles :
          ret = Ok([results |-> <<>>, bundle |-> [state |-> b, contracts |-> EmptyMap]])

SpecRemap == InitRemap /\ [][Finalize]_vars

\* the State after the executor's loop ran the whole list without a VM-level error
RECURSIVE Replay(_, _)
Replay(st, list) ==
    IF list = <<>> THEN st
    ELSE LET r == Transact(st, Head(list)) IN Replay(CommitState(r.state, r.diff), Tail(list))

\* the Bundle a replay of the list on the genesis snapshot returns
PriorBundle(list) == TakeBundle(MergeTransitions(Replay(NewState(GenesisDb, None), list)))

\* prior Bundles: the first contract deployed with 7 in its slot; the same
\* after a call stored 9
PriorBundles ==
    {PriorBundle(<<new_system_create_txn(Data("deploy", 1, 7))>>),
     PriorBundle(<<new_system_create_txn(Data("deploy", 1, 7)),
                   new_system_call_txn(DeployAddress(1), Data("set", 1, 9))>>)}

\* snapshots under the base: the genesis snapshot, and one that also holds the
\* first contract with another value in its slot
BaseDbs ==
    {GenesisDb,
     InMemoryDB((SYSTEM_ADDRESS :> GenesisDb.accounts[SYSTEM_ADDRESS])
                @@ (DeployAddress(1) :> [info |-> ContractInfo(RuntimeCode),
                                         storage |-> (1 :> MaxVal)]),
                (Keccak(RuntimeCode) :> RuntimeCode), EmptyMap)}

\* the transactions replayed on a base: calls of the first contract, a deployment
BaseTxEnvs ==
    {new_system_call_txn(DeployAddress(1), inp) : inp \in CallInputs}
    \cup {new_system_create_txn(Plain)}

\* the executor called with Some(bundle) as pre_bundle_state
InitBase ==
    /\ db \in BaseDbs
    /\ bundle_state \in {Some(b) : b \in PriorBundles}
    /\ query = None
    /\ txs \in SeqsUpTo(BaseTxEnvs, MaxTxs)
    /\ routine = "none"
    /\ addr_map = EmptyMap
    /\ addresses = <<>>
    /\ built = 0
    /\ pc = "start"
    /\ run = 1 /\ first = None
    /\ Idle

NextBase == Start \/ ExecTx \/ ExecDone

SpecBase == InitBase /\ [][NextBase]_vars

\* the storage of a contract in a finalized Bundle: nothing, or one bounded slot
FinalStorages == {EmptyMap} \cup {(k :> v) : k \in 1..2, v \in 1..MaxVal}

\* finalized Bundles handed to verify_result: the three contracts the passes
\* query at their canonical addresses, each there or not
FinalBundles ==
    {[state |-> [a \in DOMAIN g |-> BundleAccount(g[a])],
      contracts |-> IF DOMAIN g = {} THEN EmptyMap ELSE (Keccak(RuntimeCode) :> RuntimeCode)] :
        g \in UNION {[A -> FinalStorages] :
                        A \in SUBSET {VALIDATOR_MANAGER_ADDR, EPOCH_MANAGER_ADDR, JWK_MANAGER_ADDR}}}

\* the passes of verify_result in order; the last two are run only when their
\* file is given
NumPasses == 4

\* the query each pass sends: get_validator_set, get_current_epoch_info,
\* getObservedJWKs, get_active_providers
PassTx(p) ==
    IF p = 1 THEN new_system_call_txn(VALIDATOR_MANAGER_ADDR, Data("get", 1, 0))
    ELSE IF p = 2 THEN new_system_call_txn(EPOCH_MANAGER_ADDR, Data("get", 1, 0))
    ELSE IF p = 3 THEN new_system_call_txn(JWK_MANAGER_ADDR, Data("get", 1, 0))
    ELSE new_system_call_txn(JWK_MANAGER_ADDR, Data("get", 2, 0))

\* a pass handed the caller's Bundle itself: take_bundle leaves the default
VerifyBundle_Moved(held, st) == st.bundle_state

\* the caller's Bundle after a pass: the pass was given bundle_state.clone()
VerifyBundle(held, st) == held

\* verify_result called with a snapshot and a finalized Bundle
InitVerify ==
    /\ db = GenesisDb
    /\ bundle_state \in {Some(b) : b \in FinalBundles}
    /\ first = Some([db |-> db, bundle_state |-> bundle_state])
    /\ query = None
    /\ txs = <<>>
    /\ routine = "verify_result"
    /\ addr_map = EmptyMap
    /\ addresses = <<>>
    /\ built = 0
    /\ pc = "verify"
    /\ run = 1
    /\ Idle

\* verify_result goes to its next pass: the pass builds its one query and calls
\* the executor on db.clone() and bundle_state.clone(); a pass without its
\* file is skipped
VerifyPass ==
    /\ pc = "verify"
    /\ routine = "verify_result"
    /\ built < NumPasses
    /\ built' = built + 1
    /\ \/ /\ txs' = <<PassTx(built + 1)>>
          /\ pc' = "start"
       \/ /\ built + 1 >= 3
          /\ UNCHANGED <<txs, pc>>
    /\ state' = None /\ i' = 0 /\ results' = <<>> /\ ret' = None /\ diffs' = <<>>
    /\ UNCHANGED <<routine, db, bundle_state, query, addr_map, addresses, panic, out, run, first>>

\* the pass matches on what the executor returned: it prints the first result,
\* or logs the error; the State of the pass is dropped
PassDone ==
    /\ pc = "returned"
    /\ routine = "verify_result"
    /\ query' = IF ret.ok
                THEN Answer("print_result", <<built>>, ret.val.results[1])
                ELSE Answer("error", <<built>>, ret.err)
    /\ bundle_state' = Some(VerifyBundle(bundle_state.val, state))
    /\ pc' = "verify"
    /\ UNCHANGED <<routine, db, txs, addr_map, addresses, built, state, i, results, ret, panic,
                   out, diffs, run, first>>

NextVerify == VerifyPass \/ Start \/ ExecTx \/ ExecDone \/ PassDone

SpecVerify == InitVerify /\ [][NextVerify]_vars

Next == Start \/ ExecTx \/ ExecDone \/ Unwrap \/ ScanResults \/ Finalize \/ Rerun

Spec == Init /\ [][Next]_vars

----------------------------------------------------------------------------
(* Properties of the executor and the routine *)

Returned == pc \in {"returned", "scan", "finalize", "done", "panic"}

IsRead(tx) == tx.transact_to.kind = "Call" /\ tx.data.op = "get"

\* the transactions before the k-th whose diff wrote the slot the k-th reads
Writers(k) ==
    {j \in 1..(k - 1) :
        /\ diffs[j].some
        /\ txs[k].transact_to.to \in DOMAIN diffs[j].val
        /\ txs[k].data.key \in DOMAIN diffs[j].val[txs[k].transact_to.to].storage}

LastWriter(k) == CHOOSE j \in Writers(k) : \A h \in Writers(k) : h <= j

\* C1: a transaction that reads a slot after earlier transactions of the list
\* wrote it gets the value the latest of them wrote: each diff is committed into
\* the cumulative view before the next transaction runs.
C1_ReadObservesWrite ==
    \A k \in 1..Len(results) :
        (IsRead(txs[k]) /\ Writers(k) # {}) =>
            results[k] = ResultOf("Success",
                <<diffs[LastWriter(k)].val[txs[k].transact_to.to].storage[txs[k].data.key].present>>)

\* a read of the slot after the constructor stored 7 and a call stored 9
C1_Witness ==
    \E k \in 1..Len(results) :
        /\ IsRead(txs[k])
        /\ Cardinality(Writers(k)) = 2
        /\ results[k].output = <<9>>

C3_State ==
    \A e \in 1..Len(diffs) :
        diffs[e] = None =>
            /\ e = Len(diffs)
            /\ i = e - 1 /\ Len(results) = e - 1
            /\ pc \in {"returned", "panic"}
            /\ ~ret.ok /\ DOMAIN ret = {"ok", "err"}
            /\ out = None

\* C3 (steps): the step in which evm.transact() fails commits nothing: the
\* accounts of the cumulative view and its transitions stay as they were.
C3_Step ==
    (Len(diffs') = Len(diffs) + 1 /\ diffs'[Len(diffs')] = None)
    => /\ \A a \in DOMAIN state.cache : a \in DOMAIN state'.cache /\ state'.cache[a] = state.cache[a]
       /\ state'.transition_state = state.transition_state
       /\ state'.bundle_state = state.bundle_state
       /\ results' = results

\* C3: a VM-level error ends the replay at once, without a commit, and the
\* executor returns the error with neither results nor bundle.
C3_VmErrorAborts == []C3_State /\ [][C3_Step]_vars

\* a VM-level error after a committed transaction and before a remaining one
C3_Witness ==
    /\ pc = "returned" /\ ~ret.ok
    /\ Len(diffs) = 2 /\ Len(txs) = 3
    /\ diffs[1].some

\* the 1-based index of the transaction the replay failed at
FailedAt == IF ret.ok THEN FirstFailure(ret.val.results) ELSE Len(diffs)

\* C4 as claimed: whenever the replay fails at a transaction, what the caller is
\* left with names that transaction's 1-based index.
C4_Original == pc = "panic" => panic.val.index = Some(FailedAt)

\* C5: the routine run twice on the same snapshot and transaction list ends the
\* same way both times: same executor return (results and bundle), same panic,
\* same returned account map.
C5_Deterministic ==
    (run = 2 /\ pc \in {"done", "panic"})
    => first = Some([pc |-> pc, ret |-> ret, panic |-> panic, out |-> out])

\* both runs returned an account map with two remapped contracts
C5_Witness ==
    /\ run = 2 /\ pc = "done"
    /\ {SYSTEM_CALLER, SYSTEM_REWARD_ADDR} \subseteq DOMAIN out.val
    /\ first.val.out = out

\* C7: the snapshot the executor was given is never written: whatever was
\* executed, its accounts, code table and block hashes are those of the db the
\* routine built.
C7_SnapshotReadOnly ==
    state # None =>
        /\ state.database.accounts = db.accounts
        /\ state.database.bytecodes = db.bytecodes
        /\ state.database.block_hashes = db.block_hashes
        /\ db = GenesisDb

\* a contract was deployed and written, a transaction reverted, and the view
\* holds an account the snapshot does not
C7_Witness ==
    /\ state # None
    /\ Len(results) = 3
    /\ \E k \in 1..3 : results[k].kind = "Revert"
    /\ \E a \in DOMAIN state.cache :
          /\ a \notin DOMAIN db.accounts
          /\ state.cache[a].account.some
          /\ state.cache[a].account.val.storage # EmptyMap

\* C6 as claimed: storage_ref answers every address and key with the stored
\* value, or with zero when the key or the account is not in the snapshot, and
\* never with an error.
C6_Original ==
    (query.some /\ query.val.op = "storage_ref") =>
        LET a == query.val.args[1]
            k == query.val.args[2]
        IN query.val.result =
              Ok(IF a \in DOMAIN db.accounts /\ k \in DOMAIN db.accounts[a].storage
                 THEN db.accounts[a].storage[k] ELSE 0)

\* the address the k-th transaction deployed its contract at
DeployedAt(k) == results[k].output[1]

\* C8 as claimed: every contract the routine deployed has its address in the
\* table, and no two addresses of the table have the same canonical address.
C8_Original ==
    pc = "done" =>
        /\ \A k \in 1..Len(results) : DeployedAt(k) \in DOMAIN addr_map
        /\ \A a, b \in DOMAIN addr_map : addr_map[a] = addr_map[b] => a = b

\* C8 amended: the table is injective and holds the addresses of the first 17
\* deployed contracts, those with a well-known address; the last four (the
\* libraries) are not in it.
C8_TotalOnCanonical ==
    pc = "done" =>
        /\ \A k \in 1..Len(results) : DeployedAt(k) \in DOMAIN addr_map <=> k <= 17
        /\ Cardinality(DOMAIN addr_map) = 17
        /\ \A a, b \in DOMAIN addr_map : addr_map[a] = addr_map[b] => a = b

\* all 21 contracts were deployed and the account map returned
C8_Witness ==
    /\ pc = "done" /\ Len(results) = NumDeploy
    /\ \A k \in 1..NumDeploy : is_success(results[k])
    /\ addr_map[DeployedAt(17)] = GOV_HUB_ADDR
    /\ DeployedAt(21) \in DOMAIN out.val

\* the bundle the remapping got, the deployer's account taken out
RawAccounts == RemoveScratch(ret.val.bundle.state)

\* the canonical addresses that an account of the bundle already sits at while a
\* contract of the bundle is remapped to them
Occupied ==
    {t \in DOMAIN RawAccounts :
        /\ t \notin DOMAIN addr_map
        /\ \E a \in (DOMAIN RawAccounts) \cap (DOMAIN addr_map) : addr_map[a] = t}

\* C9 as claimed: whatever the raw bundle, the remapping leaves the number of
\* accounts as it was.
C9_Original ==
    pc = "done" => Cardinality(DOMAIN out.val) = Cardinality(DOMAIN RawAccounts)

\* C9 amended: the remapping leaves the number of accounts as it was when no
\* account of the bundle sits at the canonical address of a contract of the
\* bundle; for each canonical address where one does, there is one account less.
C9_CountUpToOccupied ==
    pc = "done" =>
        Cardinality(DOMAIN out.val) = Cardinality(DOMAIN RawAccounts) - Cardinality(Occupied)

\* remapped, never remapped and colliding accounts in one bundle
C9_Witness ==
    /\ pc = "done"
    /\ Cardinality(Occupied) = 1
    /\ DeployAddress(18) \in DOMAIN out.val
    /\ SYSTEM_REWARD_ADDR \in DOMAIN out.val
    /\ Cardinality(DOMAIN out.val) = 3

\* C10 as claimed: where a remapped contract and an account already at its
\* canonical address meet, the account that results has every storage key of
\* both.
C10_Original ==
    pc = "done" =>
        \A t \in Occupied :
            \A a \in (DOMAIN RawAccounts) \cap (DOMAIN addr_map) :
                addr_map[a] = t =>
                    DOMAIN out.val[t].storage =
                        (DOMAIN RawAccounts[a].storage) \cup (DOMAIN RawAccounts[t].storage)

\* C11 as claimed: the order in which the entries of the bundle are traversed
\* does not change the storage maps of the result: entries with disjoint keys
\* give the same maps in either order, and for a key written twice the later
\* transaction's value stays.
C11_Original ==
    pc = "done" =>
        \A m \in Remapped(RawAccounts, addr_map) :
            \A t \in DOMAIN m : m[t].storage = out.val[t].storage

\* C12: the account map the routine returns has no entry for SYSTEM_ADDRESS,
\* and every other account of the executor's bundle is in it unchanged, under
\* its canonical address if the table has one and under its own otherwise.
C12_ScratchRemoved ==
    pc = "done" =>
        /\ SYSTEM_ADDRESS \notin DOMAIN out.val
        /\ \A a \in (DOMAIN ret.val.bundle.state) \ {SYSTEM_ADDRESS} :
              /\ NewKey(addr_map, a) \in DOMAIN out.val
              /\ out.val[NewKey(addr_map, a)] = ret.val.bundle.state[a]

\* the deployer's nonce was bumped three times, its account is in the bundle
\* with three deployed contracts, and the map was returned
C12_Witness ==
    /\ pc = "done"
    /\ SYSTEM_ADDRESS \in DOMAIN ret.val.bundle.state
    /\ ret.val.bundle.state[SYSTEM_ADDRESS].info.val.nonce = 4
    /\ Cardinality(DOMAIN out.val) = 3

----------------------------------------------------------------------------
(* The revert classifiers: utils.rs analyze_revert_reason (execute.rs has  *)
(* the same function) and execute.rs match_execution_revert_reason.        *)
(* A String is the sequence of the pieces pushed to it; numbers and bytes   *)
(* are formatted digit by digit.                                           *)

\* format!("{}", n) of an unsigned number
RECURSIVE Decimal(_)
Decimal(n) ==
    LET digit == <<"0", "1", "2", "3", "4", "5", "6", "7", "8", "9">>
    IN IF n < 10 THEN <<digit[n + 1]>> ELSE Append(Decimal(n \div 10), digit[(n % 10) + 1])

HexChars == <<"0", "1", "2", "3", "4", "5", "6", "7", "8", "9", "a", "b", "c", "d", "e", "f">>

\* hex::encode: two lower-case digits for each byte
HexEncode(bytes) ==
    [j \in 1..(2 * Len(bytes)) |->
        IF j % 2 = 1 THEN HexChars[(bytes[(j + 1) \div 2] \div 16) + 1]
        ELSE HexChars[(bytes[j \div 2] % 16) + 1]]

\* the errors of the sol! block of match_execution_revert_reason; SELECTOR is the
\* first four bytes of keccak256 of the signature
ErrorKind(name, selector, reason) == [name |-> name, selector |-> selector, reason |-> reason]

ErrorKinds ==
    {ErrorKind("OnlySystemCaller", <<220, 51, 33, 149>>, "Revert Reason: OnlySystemCaller()"),
     ErrorKind("UnknownParam", <<151, 184, 131, 84>>, "Revert Reason: UnknownParam()"),
     ErrorKind("InvalidValue", <<10, 90, 96, 65>>, "Revert Reason: InvalidValue()"),
     ErrorKind("OnlyCoinbase", <<17, 108, 100, 168>>, "Revert Reason: OnlyCoinbase()"),
     ErrorKind("OnlyZeroGasPrice", <<131, 241, 177, 211>>, "Revert Reason: OnlyZeroGasPrice()"),
     ErrorKind("OnlySystemContract", <<242, 44, 67, 144>>, "Revert Reason: OnlySystemContract()")}

\* the match on the selector in analyze_revert_reason: the byte patterns of its
\* arms and what each pushes
SelectorArms ==
    (<<151, 184, 131, 84>> :> " (OnlySystemCaller)")     \* [0x97, 0xb8, 0x83, 0x54]
    @@ (<<10, 90, 96, 65>> :> " (UnknownParam)")         \* [0x0a, 0x5a, 0x60, 0x41]
    @@ (<<17, 108, 100, 168>> :> " (InvalidValue)")      \* [0x11, 0x6c, 0x64, 0xa8]
    @@ (<<131, 241, 177, 211>> :> " (OnlyCoinbase)")     \* [0x83, 0xf1, 0xb1, 0xd3]
    @@ (<<242, 44, 67, 144>> :> " (OnlyZeroGasPrice)")   \* [0xf2, 0x2c, 0x43, 0x90]

\* fn analyze_revert_reason
analyze_revert_reason(result) ==
    CASE result.kind = "Revert" ->
           LET start == <<"Revert with gas used: ">> \o Decimal(result.gas_used)
               output == result.output
               selector == SubSeq(output, 1, 4)
               named == IF Len(output) >= 4
                        THEN start \o <<"\nFunction selector: 0x">> \o HexEncode(selector)
                                   \o <<IF selector \in DOMAIN SelectorArms
                                        THEN SelectorArms[selector]
                                        ELSE " (Unknown error selector)">>
                        ELSE start
           IN IF Len(output) > 4
              THEN named \o <<"\nAdditional data: 0x">> \o HexEncode(SubSeq(output, 5, Len(output)))
              ELSE named
      [] result.kind = "Success" ->
           <<"Success with gas used: ">> \o Decimal(result.gas_used)
      [] OTHER ->
           <<"Halt: ", result.output[1], " with gas used: ">> \o Decimal(result.gas_used)

\* fn match_execution_revert_reason: the whole output is compared with SELECTOR
match_execution_revert_reason(r) ==
    IF r.kind = "Revert"
    THEN IF \E e \in ErrorKinds : r.output = e.selector
         THEN <<(CHOOSE e \in ErrorKinds : r.output = e.selector).reason>>
         ELSE <<"Unknown revert reason: ", "0x">> \o HexEncode(r.output)
    ELSE <<"Unknown revert reason">>

\* byte strings of a length, over two byte values
BytesOf(n) == [1..n -> {0, 171}]

\* outputs of a revert: a selector of the sol! block or the selector of
\* Error(string), followed by up to MaxPayload bytes; and outputs shorter than a
\* selector
RevertOutputs ==
    {sel \o pay : sel \in {e.selector : e \in ErrorKinds} \cup {<<8, 195, 121, 160>>},
                  pay \in UNION {BytesOf(n) : n \in 0..MaxPayload}}
    \cup {SubSeq(<<151, 184, 131, 84>>, 1, n) : n \in 0..3}

ExecutionResults ==
    {[kind |-> "Revert", output |-> o, gas_used |-> g] : o \in RevertOutputs, g \in {0, 21000}}
    \cup {[kind |-> "Success", output |-> <<>>, gas_used |-> g] : g \in {0, 21000}}
    \cup {[kind |-> "Halt", output |-> <<"OutOfGas">>, gas_used |-> g] : g \in {0, 21000}}

\* an execution result in hand, to be classified
InitClassify ==
    /\ bundle_state = None
    /\ routine = "none"
    /\ db = GenesisDb
    /\ query = None
    /\ txs = <<>>
    /\ addr_map = EmptyMap
    /\ addresses = <<>>
    /\ built = 0
    /\ pc = "classify"
    /\ run = 1 /\ first = None
    /\ state = None /\ i = 0 /\ ret = None /\ panic = None /\ out = None /\ diffs = <<>>
    /\ \E r \in ExecutionResults : results = <<r>>

ClassifyAnalyze ==
    /\ pc = "classify"
    /\ query' = Answer("analyze_revert_reason", results, analyze_revert_reason(results[1]))
    /\ UNCHANGED <<routine, db, bundle_state, txs, addr_map, addresses, built, pc, state, i, results, ret,
                   panic, out, diffs, run, first>>

ClassifyMatch ==
    /\ pc = "classify"
    /\ query' = Answer("match_execution_revert_reason", results,
                       match_execution_revert_reason(results[1]))
    /\ UNCHANGED <<routine, db, bundle_state, txs, addr_map, addresses, built, pc, state, i, results, ret,
                   panic, out, diffs, run, first>>

NextClassify == ClassifyAnalyze \/ ClassifyMatch

SpecClassify == InitClassify /\ [][NextClassify]_vars

Classified == query.some /\ query.val.op \in {"analyze_revert_reason", "match_execution_revert_reason"}

BeginsWith(bytes, prefix) == Len(bytes) >= Len(prefix) /\ SubSeq(bytes, 1, Len(prefix)) = prefix

\* the pieces by which a classification names an error kind
NamePieces(name) ==
    CASE name = "OnlySystemCaller" -> {" (OnlySystemCaller)", "Revert Reason: OnlySystemCaller()"}
      [] name = "UnknownParam" -> {" (UnknownParam)", "Revert Reason: UnknownParam()"}
      [] name = "InvalidValue" -> {" (InvalidValue)", "Revert Reason: InvalidValue()"}
      [] name = "OnlyCoinbase" -> {" (OnlyCoinbase)", "Revert Reason: OnlyCoinbase()"}
      [] name = "OnlyZeroGasPrice" -> {" (OnlyZeroGasPrice)", "Revert Reason: OnlyZeroGasPrice()"}
      [] OTHER -> {" (OnlySystemContract)", "Revert Reason: OnlySystemContract()"}

Pieces(text) == {text[j] : j \in 1..Len(text)}

\* C13 as claimed: a revert whose output begins with the selector of one of the
\* six error kinds, with or without bytes after it, is classified with the name
\* of that kind.
C13_Original ==
    (Classified /\ query.val.args[1].kind = "Revert") =>
        \A e \in ErrorKinds :
            BeginsWith(query.val.args[1].output, e.selector) =>
                Pieces(query.val.result) \cap NamePieces(e.name) # {}

\* the bytes a classification of analyze_revert_reason shows: the hex digits after
\* its "Function selector" piece, read back as bytes
ShownBytes(text) ==
    LET at == {j \in 1..Len(text) : text[j] = "\nFunction selector: 0x"}
        after == IF at = {} THEN <<>>
                 ELSE SubSeq(text, (CHOOSE j \in at : TRUE) + 1, Len(text))
        hex == SelectSeq(after, LAMBDA t : \E d \in 1..16 : HexChars[d] = t)
        value(c) == (CHOOSE d \in 1..16 : HexChars[d] = c) - 1
    IN [j \in 1..(Len(hex) \div 2) |-> 16 * value(hex[2 * j - 1]) + value(hex[2 * j])]

\* C14 as claimed: analyze_revert_reason shows every byte of the output of a
\* revert, whatever its length, and says "unknown error selector" when the
\* output has bytes and does not begin with a selector of its table.
C14_Original ==
    (query.some /\ query.val.op = "analyze_revert_reason" /\ query.val.args[1].kind = "Revert") =>
        LET output == query.val.args[1].output IN
        /\ ShownBytes(query.val.result) = output
        /\ (output # <<>> /\ \A sel \in DOMAIN SelectorArms : ~BeginsWith(output, sel))
              => " (Unknown error selector)" \in Pieces(query.val.result)

\* C15: the deployment transactions are creates sent by the one deployer, the
\* k-th of the list is given the address of creation counter k, so the addresses
\* are pairwise distinct; they do not depend on anything but the position, so
\* building the list again gives the same addresses.
C15_AddressDerivation ==
    /\ Len(addresses) = built
    /\ pc = "build" => Len(txs) = built
    /\ \A k \in 1..Len(addresses) :
          /\ addresses[k] = CreateAddress(SYSTEM_ADDRESS, k)
          /\ txs[k].caller = SYSTEM_ADDRESS /\ txs[k].transact_to.kind = "Create"
          /\ \A j \in 1..Len(addresses) : addresses[j] = addresses[k] => j = k

\* all 21 deployments built, one of them from a hex file that is not plain
C15_Witness ==
    /\ built = NumDeploy /\ Len(addresses) = NumDeploy /\ Len(txs) = NumDeploy
    /\ Faults(txs) = 1
    /\ addresses[NumDeploy] = CreateAddress(SYSTEM_ADDRESS, NumDeploy)

\* the deployer's creation counter as the next transaction will find it
DeployerNonce ==
    IF SYSTEM_ADDRESS \in DOMAIN state.cache
    THEN state.cache[SYSTEM_ADDRESS].account.val.info.nonce
    ELSE basic_ref(state.database, SYSTEM_ADDRESS).val.val.nonce

\* C19: when the k-th deployment transaction is about to execute, the
\* deployer's creation counter is k, the counter its address was predicted
\* with; so every contract that was deployed sits at the address the deploy
\* function returned for it.
C19_PredictedIsActual ==
    /\ (pc = "exec" /\ i < Len(txs)) =>
          /\ DeployerNonce = i + 1
          /\ CreateAddress(SYSTEM_ADDRESS, DeployerNonce) = addresses[i + 1]
    /\ pc \in {"exec", "returned", "scan", "finalize", "done"} =>
          \A k \in 1..Len(results) :
              results[k].kind = "Success" => DeployedAt(k) = addresses[k]

\* all 21 deployments executed, the failing one included, the last one deployed
C19_Witness ==
    /\ pc = "exec" /\ i = NumDeploy /\ Len(results) = NumDeploy
    /\ \E k \in 1..(NumDeploy - 1) : results[k].kind # "Success"
    /\ results[NumDeploy].kind = "Success"
    /\ DeployedAt(NumDeploy) = addresses[NumDeploy]
    /\ DeployerNonce = NumDeploy + 1

\* the executor's State after the first k transactions of the list
RECURSIVE StateAfter(_)
StateAfter(k) ==
    IF k = 0 THEN NewState(db, bundle_state)
    ELSE LET r == Transact(StateAfter(k - 1), txs[k]) IN CommitState(r.state, r.diff)

\* the outcome of the k-th transaction of the list on the state the first k - 1 left
OutcomeOf(k) == Transact(StateAfter(k - 1), txs[k]).result

\* C17: when the executor returns Ok for a list of n transactions it returns
\* n results, and the k-th result is the outcome of the k-th transaction of
\* the list.
C17_ResultsOneToOne ==
    (pc \in {"returned", "scan", "finalize", "done"} /\ ret.ok) =>
        /\ Len(ret.val.results) = Len(txs)
        /\ \A k \in 1..Len(txs) : ret.val.results[k] = OutcomeOf(k)

\* three transactions with three different outcomes, in the order of the list
C17_Witness ==
    /\ pc = "returned" /\ ret.ok
    /\ Len(txs) = 3 /\ Len(ret.val.results) = 3
    /\ ret.val.results[1].kind = "Success" /\ ret.val.results[1].output = <<DeployAddress(1)>>
    /\ ret.val.results[2].kind = "Revert"
    /\ ret.val.results[3].kind = "Success" /\ ret.val.results[3].output = <<7>>

\* the transactions whose diff changed slot k of account a
WritersOf(a, k) ==
    {j \in 1..Len(diffs) :
        /\ diffs[j].some
        /\ a \in DOMAIN diffs[j].val
        /\ k \in DOMAIN ChangedSlots(diffs[j].val[a].storage)}

WrittenAccounts == UNION {DOMAIN diffs[j].val : j \in {h \in 1..Len(diffs) : diffs[h].some}}

WrittenKeys(a) == {k \in 1..MaxKey : WritersOf(a, k) # {}}

HighestWriter(a, k) == CHOOSE j \in WritersOf(a, k) : \A h \in WritersOf(a, k) : h <= j

LowestWriter(a, k) == CHOOSE j \in WritersOf(a, k) : \A h \in WritersOf(a, k) : j <= h

\* the value the highest-indexed writer of the slot wrote
LastWritten(a, k) == diffs[HighestWriter(a, k)].val[a].storage[k].present

\* the value of the slot before the first transaction that wrote it
BeforeReplay(a, k) == diffs[LowestWriter(a, k)].val[a].storage[k].original

\* the accounts some transaction created or sent a transaction from
ChangedAccounts ==
    {a \in WrittenAccounts :
        \E j \in 1..Len(diffs) :
            /\ diffs[j].some /\ a \in DOMAIN diffs[j].val
            /\ (diffs[j].val[a].created \/ a = txs[j].caller)}

ReplayDone == pc \in {"returned", "scan", "finalize", "done"} /\ ret.ok

C16_NonSuccessIsFatal ==
    /\ (\E k \in 1..Len(results) : results[k].kind \in {"Revert", "Halt"}) =>
          /\ out = None
          /\ pc \in {"exec", "returned", "scan", "panic"}
    /\ out # None =>
          /\ Len(results) = Len(txs)
          /\ \A k \in 1..Len(txs) : results[k].kind = "Success"

\* the 21 deployments succeeded and the initialization call reverted: the
\* routine panicked with the call's index and wrote nothing
C16_Witness ==
    /\ pc = "panic" /\ routine = "genesis_generate"
    /\ Len(results) = NumDeploy + 1
    /\ \A k \in 1..NumDeploy : results[k].kind = "Success"
    /\ results[NumDeploy + 1].kind = "Revert"
    /\ panic = Some(GenesisFailedPanic(NumDeploy + 1))
    /\ out = None

\* the transaction list is complete
ListBuilt == routine = "genesis_generate" /\ pc \notin {"build", "init"}

IsInitialize(tx) == tx.transact_to.kind = "Call"

\* C20 as claimed: every initialization call of the list comes after all the
\* deployments and is sent to the canonical address of the Genesis contract.
C20_Original ==
    ListBuilt =>
        \A k \in 1..Len(txs) :
            IsInitialize(txs[k]) =>
                /\ \A j \in 1..Len(txs) : txs[j].transact_to.kind = "Create" => j < k
                /\ txs[k].transact_to.to = GENESIS_ADDR

\* C20 amended: the list is the 21 deployments followed by one initialization
\* call, and the call is sent to the address the Genesis contract's deployment
\* was given, the deployer's address at creation counter 14.
C20_InitializeAfterDeployments ==
    ListBuilt =>
        /\ Len(txs) = NumDeploy + 1
        /\ \A k \in 1..NumDeploy : txs[k].transact_to.kind = "Create"
        /\ IsInitialize(txs[NumDeploy + 1])
        /\ txs[NumDeploy + 1].transact_to.to = CreateAddress(SYSTEM_ADDRESS, DeployTable[IndexOf("Genesis")].nonce)
        /\ txs[NumDeploy + 1].transact_to.to # GENESIS_ADDR
        /\ \A k \in 1..Len(results) :
              (k = IndexOf("Genesis") /\ results[k].kind = "Success")
                  => DeployedAt(k) = txs[NumDeploy + 1].transact_to.to

\* the replay ran the initialization call on the deployed Genesis contract,
\* which stored the configuration
C20_Witness ==
    /\ ListBuilt /\ pc = "done"
    /\ txs[NumDeploy + 1].data.op = "set"
    /\ results[NumDeploy + 1].kind = "Success"
    /\ 1 \in DOMAIN out.val.genesis_accounts[txs[NumDeploy + 1].transact_to.to].storage
    /\ GENESIS_ADDR \notin DOMAIN out.val.genesis_accounts

\* the results that are a Revert or a Halt
FailedResults(res) == {k \in 1..Len(res) : res[k].kind \in {"Revert", "Halt"}}

\* C21: while the loop runs the transitions are only recorded and the Bundle
\* stays empty; they are merged once, after the last transaction, and the
\* sender's nonce in the returned Bundle counts every transaction of the list,
\* the reverted and halted ones included.
C21_NonceCountsFailures ==
    /\ pc = "exec" =>
          /\ state.bundle_state = EmptyBundle
          /\ state.transition_state.some
    /\ (ReplayDone /\ txs # <<>>) =>
          /\ SYSTEM_ADDRESS \in DOMAIN ret.val.bundle.state
          /\ ret.val.bundle.state[SYSTEM_ADDRESS].info.val.nonce
               = db.accounts[SYSTEM_ADDRESS].info.nonce + Len(ret.val.results)
          /\ ret.val.bundle.state[SYSTEM_ADDRESS].original_info.val.nonce
               = db.accounts[SYSTEM_ADDRESS].info.nonce

\* three transactions, the second reverted, the third halted or reverted: the
\* sender's nonce went from 1 to 4
C21_Witness ==
    /\ ReplayDone
    /\ Len(txs) = 3
    /\ FailedResults(ret.val.results) = {2, 3}
    /\ ret.val.results[2].kind = "Revert"
    /\ ret.val.bundle.state[SYSTEM_ADDRESS].info.val.nonce = 4

\* the reads of the list that no earlier transaction of the list wrote, of a
\* slot the base Bundle holds
ReadsOfBase ==
    {k \in 1..Len(results) :
        /\ IsRead(txs[k]) /\ Writers(k) = {}
        /\ bundle_state.some
        /\ txs[k].transact_to.to \in DOMAIN bundle_state.val.state
        /\ txs[k].data.key \in DOMAIN bundle_state.val.state[txs[k].transact_to.to].storage}

\* C22 as claimed: on a base Bundle every read of a slot the base holds
\* returns the base's value, not the snapshot's, and the Bundle returned at
\* the end holds the effects of the executed transactions: the value of the
\* last writer of every slot whose value the list changed, and the sender's
\* nonce after the list.
C22_Original ==
    /\ \A k \in ReadsOfBase :
          results[k].output =
             <<bundle_state.val.state[txs[k].transact_to.to].storage[txs[k].data.key].present>>
    /\ (ReplayDone /\ bundle_state.some) =>
          /\ \A a \in WrittenAccounts : \A k \in WrittenKeys(a) :
                LastWritten(a, k) # BeforeReplay(a, k) =>
                    /\ a \in DOMAIN ret.val.bundle.state
                    /\ k \in DOMAIN ret.val.bundle.state[a].storage
                    /\ ret.val.bundle.state[a].storage[k].present = LastWritten(a, k)
          /\ ret.val.bundle.state[SYSTEM_ADDRESS].info.val.nonce
                = bundle_state.val.state[SYSTEM_ADDRESS].info.val.nonce + Len(ret.val.results)

\* the result of a pass run alone on the snapshot and the Bundle verify_result
\* was called with
AloneResult(tx) == Transact(NewState(first.val.db, first.val.bundle_state), tx).result

\* C23: every verification pass runs on its own copy of the snapshot and of
\* the finalized Bundle: the caller's snapshot and Bundle are after any number
\* of passes what verify_result was called with, and each pass returns what
\* it would return if it were the only pass.
C23_PassesOnCopies ==
    routine = "verify_result" =>
        /\ db = first.val.db
        /\ bundle_state = first.val.bundle_state
        /\ pc = "returned" =>
              /\ ret.ok
              /\ ret.val.results = <<AloneResult(txs[1])>>

\* the fourth pass, after the third was run, read the slot the Bundle holds
C23_Witness ==
    /\ routine = "verify_result"
    /\ pc = "returned" /\ built = NumPasses
    /\ query.some /\ query.val.args = <<3>>
    /\ JWK_MANAGER_ADDR \in DOMAIN bundle_state.val.state
    /\ ret.ok /\ ret.val.results = <<ResultOf("Success", <<1>>)>>

\* C24 as claimed: code_by_hash_ref answers a hash of the code table with the
\* stored bytes and a hash that is not there with a code-not-found error, and
\* no other lookup of the snapshot fails.
C24_Original ==
    query.some =>
        /\ query.val.op = "code_by_hash_ref" =>
              LET h == query.val.args[1] IN
              IF h \in DOMAIN db.bytecodes
              THEN query.val.result = Ok(db.bytecodes[h])
              ELSE /\ ~query.val.result.ok
                   /\ query.val.result.err = <<"can't find code by hash", h>>
        /\ query.val.op \in {"basic_ref", "storage_ref", "block_hash_ref"} => query.val.result.ok

\* C25: in the files genesis_generate writes, every account that carries code
\* finds its code in the code table under its code hash, and accounts with the
\* same code share that one entry.
C25_CodeTableComplete ==
    (routine = "genesis_generate" /\ pc = "done") =>
        \A a \in DOMAIN out.val.genesis_accounts :
            LET info == out.val.genesis_accounts[a].info IN
            info.code_hash # KECCAK_EMPTY =>
                /\ info.code_hash \in DOMAIN out.val.genesis_contracts
                /\ Keccak(out.val.genesis_contracts[info.code_hash]) = info.code_hash
                /\ info.code.some => out.val.genesis_contracts[info.code_hash] = info.code.val

\* 21 accounts with code written, 20 of them with the same code: two entries
C25_Witness ==
    /\ routine = "genesis_generate" /\ pc = "done"
    /\ Cardinality(DOMAIN out.val.genesis_accounts) = NumDeploy
    /\ Cardinality({a \in DOMAIN out.val.genesis_accounts :
                       out.val.genesis_accounts[a].info.code_hash = Keccak(RuntimeCode)}) = NumDeploy - 1
    /\ DOMAIN out.val.genesis_contracts = {Keccak(RuntimeCode), Keccak(RuntimeCodeOf(Data("deploy", 1, 7)))}

\* no two accounts of the raw bundle get the same key
NoCollision ==
    \A a, b \in DOMAIN RawAccounts : NewKey(addr_map, a) = NewKey(addr_map, b) => a = b

\* C26: when no two accounts of the raw Bundle end up on the same key, the
\* remapping changes keys only: the finalized map has exactly one account for
\* every account of the raw Bundle but the deployer's, with the same info and
\* storage, under the canonical address when the table has the account's
\* address and under its own address otherwise.
C26_KeysOnly ==
    (pc = "done" /\ NoCollision) =>
        /\ DOMAIN out.val = {NewKey(addr_map, a) : a \in DOMAIN RawAccounts}
        /\ \A a \in DOMAIN RawAccounts :
              /\ out.val[NewKey(addr_map, a)].info = RawAccounts[a].info
              /\ out.val[NewKey(addr_map, a)].storage = RawAccounts[a].storage
              /\ NewKey(addr_map, a) = (IF a \in DOMAIN addr_map THEN addr_map[a] ELSE a)

\* a renamed contract with a written slot, a contract the table does not have,
\* and the deployer's account taken out
C26_Witness ==
    /\ pc = "done" /\ NoCollision
    /\ SYSTEM_ADDRESS \in DOMAIN ret.val.bundle.state
    /\ DeployAddress(1) \in DOMAIN RawAccounts
    /\ RawAccounts[DeployAddress(1)].storage # EmptyMap
    /\ out.val[SYSTEM_CALLER] = RawAccounts[DeployAddress(1)]
    /\ DeployAddress(18) \in DOMAIN out.val

\* no transaction of the list ends in a VM-level error
NoVmError == \A k \in 1..Len(txs) : Transact(StateAfter(k - 1), txs[k]).ok

\* the smallest index of a result that is not a success
FirstFailed(res) == CHOOSE k \in FailedResults(res) : \A j \in FailedResults(res) : k <= j

\* C27: a Revert or Halt result does not stop the executor: without a VM-level
\* error it returns a result for every transaction of the list, those after
\* the failed one executed on the cumulative view, together with the Bundle;
\* only the caller's scan then stops the routine, naming the smallest index
\* whose result is not a success.
C27_FailureFoundByCaller ==
    (Returned /\ NoVmError) =>
        /\ ret.ok
        /\ Len(ret.val.results) = Len(txs)
        /\ FailedResults(ret.val.results) # {} =>
              /\ \A j \in (FirstFailed(ret.val.results) + 1)..Len(txs) :
                    ret.val.results[j] = OutcomeOf(j)
              /\ SYSTEM_ADDRESS \in DOMAIN ret.val.bundle.state
              /\ pc \in {"returned", "scan", "panic"}
              /\ pc = "panic" =>
                    /\ panic.val.index = Some(FirstFailed(ret.val.results))
                    /\ out = None

\* the first transaction reverted or halted, the second deployed a contract, the
\* caller named the first
C27_Witness ==
    /\ pc = "panic" /\ ret.ok
    /\ Len(txs) = 3
    /\ FirstFailed(ret.val.results) = 1
    /\ ret.val.results[2].kind = "Success" /\ ret.val.results[2].output = <<CreateAddress(SYSTEM_ADDRESS, 2)>>
    /\ CreateAddress(SYSTEM_ADDRESS, 2) \in DOMAIN ret.val.bundle.state
    /\ panic = Some(FailedPanic(1))

\* the error kinds a classification names
NamedBy(text) == {e.name : e \in {x \in ErrorKinds : Pieces(text) \cap NamePieces(x.name) # {}}}

\* C28 as claimed: on every Revert output the two classifiers name the same
\* error kind, or neither names one.
C28_Original ==
    (Classified /\ query.val.args[1].kind = "Revert") =>
        LET r == query.val.args[1]
            other == IF query.val.op = "analyze_revert_reason"
                     THEN match_execution_revert_reason(r)
                     ELSE analyze_revert_reason(r)
        IN NamedBy(query.val.result) = NamedBy(other)

\* every result of the returned list is a success
AllSucceeded == \A k \in 1..Len(ret.val.results) : ret.val.results[k].kind = "Success"

\* the accounts a transaction touched that were empty afterwards
TouchedEmpty ==
    {a \in WrittenAccounts :
        \E j \in 1..Len(diffs) :
            diffs[j].some /\ a \in DOMAIN diffs[j].val /\ InfoIsEmpty(diffs[j].val[a].info)}

\* C29: in the Bundle of a replay on the genesis snapshot whose transactions
\* all succeeded, every account but the deployer's has its info, so info.unwrap()
\* of the finalization finds a value for every account; an account that was only
\* touched and does not exist has no entry at all.
C29_InfoPresent ==
    (ReplayDone /\ AllSucceeded) =>
        /\ \A a \in DOMAIN RemoveScratch(ret.val.bundle.state) :
              ret.val.bundle.state[a].info.some
        /\ TouchedEmpty \cap DOMAIN ret.val.bundle.state = {}

\* a call of an address without an account, then a deployment: all succeeded
C29_Witness ==
    /\ ReplayDone /\ AllSucceeded
    /\ Len(txs) = 3
    /\ TouchedEmpty = {DeployAddress(1)}
    /\ Cardinality(DOMAIN RemoveScratch(ret.val.bundle.state)) = 2

\* C30: on every snapshot and transaction list the logging executor returns
\* what the plain executor returns: the same results and the same Bundle, or
\* the same error of the same transaction.
C30_ExecutorsAgree ==
    pc = "returned" =>
        /\ ret = execute_revm_sequential(db, txs).ret
        /\ ~ret.ok => i + 1 = execute_revm_sequential(db, txs).failed_at
        /\ ret.ok => i = Len(txs)

\* a deployment, a reverted call and a deployment whose init code is over the
\* size limit: both executors fail at the third transaction
C30_Witness ==
    /\ pc = "returned" /\ ~ret.ok
    /\ Len(txs) = 3 /\ i = 2
    /\ results[1].kind = "Success" /\ results[2].kind = "Revert"
    /\ execute_revm_sequential(db, txs).failed_at = 3

====
